---- MODULE Spec2Model ----
(***************************************************************************)
(* Model of the MCP process-and-protocol manager of lit-mux                *)
(* (src/src/lit_mux/services/mcp_client.py): MCPClient owning a dict of    *)
(* MCPServerProcess objects, each owning one child process and its three   *)
(* pipes.  The coroutines of MCPClient are cut at the points where they    *)
(* suspend (asyncio.sleep, asyncio.wait_for); the code between two         *)
(* suspension points is one atomic action, as on a single event loop.      *)
(***************************************************************************)
EXTENDS Integers, Sequences, FiniteSets, TLC

\* ------------------------------------------------------------------ bounds
Names == {"a", "a.b"}          \* server names callers may use
ToolNames == {"c", "b.c"}      \* tool names a child may report
CallNames == {"c"}             \* tool names callers may ask for
MaxSup == 2                    \* child processes spawned in one behaviour
MaxReq == 4                    \* request ids handed out in one behaviour
MaxAdds == 2                   \* add_server calls in one behaviour
MaxLines == 1                  \* lines waiting unread on a child's stdout
max_lines == 50                \* _read_response: max_lines = 50
Workers == 1                   \* threads of the event loop's default executor

Tasks == {1, 2}                \* coroutines that may be in flight at once
SupIds == 1..MaxSup

VARIABLES
  servers,      \* MCPClient.servers: name -> supervisor object (0 = no entry)
  tools,        \* MCPClient.tools: set of entries [key, name, server_name]
  request_id,   \* MCPClient.request_id
  stats,        \* MCPClient.stats
  sup,          \* the MCPServerProcess objects: [name, process, is_running]
  proc,         \* the child of each object: OS process state and Popen pipes
  nsup,         \* number of MCPServerProcess objects that spawned a child
  task,         \* the coroutines calling into the MCPClient
  callers       \* how many coroutines may be in flight at once

vars == <<servers, tools, request_id, stats, sup, proc, nsup, task, callers>>
mgr == <<servers, tools, request_id, stats, sup, proc, nsup>>

\* ------------------------------------------------------------ data values
NoSup == [name |-> "", process |-> FALSE, is_running |-> FALSE]

NoProc == [spawned |-> FALSE, alive |-> FALSE, reaped |-> FALSE,
           stdin |-> "none", stdout |-> "none", stderr |-> "none",
           dirty |-> FALSE, sent |-> <<>>, last |-> 0, lines |-> <<>>,
           kids |-> FALSE, orphans |-> 0]

\* subprocess.Popen(..., stdin=PIPE, stdout=PIPE, stderr=PIPE)
\* kids: a descendant of the child lives in the child's process group and
\* holds copies of its pipes; orphans: readline calls on stdout left behind
\* in the executor by requests that timed out
Popen == [spawned |-> TRUE, alive |-> TRUE, reaped |-> FALSE,
          stdin |-> "open", stdout |-> "open", stderr |-> "open",
          dirty |-> FALSE, sent |-> <<>>, last |-> 0, lines |-> <<>>,
          kids |-> FALSE, orphans |-> 0]

NoSnap == [is_running |-> FALSE, process |-> FALSE, stdin |-> "none",
           stdout |-> "none", stderr |-> "none", alive |-> FALSE]

IdleTask == [op |-> "none", pc |-> "idle", name |-> "", tool |-> "", sup |-> 0,
             target |-> 0, todo |-> {}, result |-> "none", why |-> "none",
             had |-> FALSE, snap |-> NoSnap, pre |-> 0, reported |-> {},
             live |-> {}, report |-> {}, again |-> FALSE, rid |-> 0,
             dropped |-> {}, nread |-> 0, cleaned_up |-> {}]

\* MCPClient.__init__
NoStats == [servers_created |-> 0, servers_failed |-> 0, servers_removed |-> 0,
            total_requests |-> 0, failed_requests |-> 0]

\* a line of a child's stdout: blank; text that is no JSON; JSON that is no
\* object; or an object with its method, id (0: none) and result fields
Blank == [kind |-> "blank", method |-> "", id |-> 0, result |-> FALSE]
Text == [kind |-> "text", method |-> "", id |-> 0, result |-> FALSE]
Value == [kind |-> "value", method |-> "", id |-> 0, result |-> FALSE]
Object(method, id, result) ==
  [kind |-> "object", method |-> method, id |-> id, result |-> result]

\* one pass of the loop of _read_response(rid) over the line l (rid 0:
\* request_id is None): a blank line and a JSONDecodeError continue; on
\* JSON that is no object data.get raises, which the outer except answers
\* with break; notifications/message continues; a matching id, or a result
\* field when no id is expected, returns the object; anything else loops
ReadLine(l, rid) ==
  CASE l.kind \in {"blank", "text"} -> "skip"
    [] l.kind = "value" -> "stop"
    [] l.method = "notifications/message" -> "skip"
    [] rid # 0 /\ l.id = rid -> "return"
    [] rid = 0 /\ l.result -> "return"
    [] OTHER -> "skip"

\* mutant: the id is handed out without the counter being advanced first
NextId_stale(r) == r

\* _get_next_request_id
NextId(r) == r + 1

\* mutant: the key without the server prefix
ToolKey_bare(server_name, name) == name

\* tool_key = f"{server_name}.{tool.name}"
ToolKey(server_name, name) == server_name \o "." \o name

\* mutant: the entry is stored without tool.server_name being set
PutTool_untagged(T, server_name, name) ==
  LET k == ToolKey(server_name, name) IN
  {x \in T : x.key # k} \cup {[key |-> k, name |-> name, server_name |-> ""]}

\* self.tools[tool_key] = tool
PutTool(T, server_name, name) ==
  LET k == ToolKey(server_name, name) IN
  {x \in T : x.key # k} \cup {[key |-> k, name |-> name, server_name |-> server_name]}

RECURSIVE PutTools(_, _, _)
PutTools(T, server_name, ns) ==
  IF ns = {} THEN T
  ELSE LET n == CHOOSE x \in ns : TRUE IN
       PutTools(PutTool(T, server_name, n), server_name, ns \ {n})

\* get_tools_by_server
get_tools_by_server(T, server_name) == {x \in T : x.server_name = server_name}

\* mutant: remove_server leaves the tools of the server in the registry
RemoveTools_keeps(T, server_name) == T

\* the tools_to_remove loop of remove_server
RemoveTools(T, server_name) == {x \in T : x.server_name # server_name}

\* mutant: the entry is left in the dict
DelServer_kept(S, server_name) == S

\* del self.servers[server_name]
DelServer(S, server_name) == [S EXCEPT ![server_name] = 0]

\* self.stats[f] += 1
Bump(st, f) == [st EXCEPT ![f] = @ + 1]

\* mutant: a failed add_server goes uncounted
Failed_uncounted(st) == st

\* self.stats["servers_failed"] += 1
Failed(st) == Bump(st, "servers_failed")

\* ------------------------------------------------- MCPServerProcess pieces
\* Popen.poll(): reports whether the child is alive; reaps it when it is not
Poll(p) == IF p.alive THEN p ELSE [p EXCEPT !.reaped = TRUE]

\* _cleanup_process: closes stdin, stdout, stderr and waits, all inside one
\* try; stdin.close() flushes, and raises again after a failed write (the
\* descriptor is closed all the same), which skips the two other closes and
\* the wait; the finally clause drops the handle and clears the flag.
\* mutant: the finally clause drops the handle and keeps the flag
CleanupSup_flag_kept(s) == IF s.process THEN [s EXCEPT !.process = FALSE] ELSE s

CleanupSup(s) == IF s.process THEN [s EXCEPT !.process = FALSE, !.is_running = FALSE] ELSE s

CleanupProc(s, p) ==
  IF ~s.process THEN p
  ELSE IF p.dirty THEN [p EXCEPT !.stdin = "closed"]
  ELSE [p EXCEPT !.stdin = "closed", !.stdout = "closed", !.stderr = "closed",
                 !.alive = FALSE, !.reaped = TRUE, !.orphans = 0]

\* _cleanup_process returns, on object s whose child p has exited:
\* stdout.close() needs the lock of the buffered reader, and a readline call
\* under way (readers: how many) holds it until a line or the end of the
\* stream arrives; the end arrives when no descendant holds the pipe either
CleanupReturns(s, p, readers) ==
  ~(p.kids /\ s.process /\ ~p.dirty /\ p.lines = <<>> /\ readers > 0)

\* stop(), up to its suspension: true when it has something to stop
NeedsStop(s) == s.process /\ s.is_running

\* Popen.terminate(): polls first, signals only a live child
Terminate(p) == Poll(p)

\* stop(), after the wait: the child honoured SIGTERM (graceful) and the poll
\* loop reaped it, or the 2 s ran out and the group was killed; then cleanup.
\* When another coroutine dropped the handle meanwhile the wait fails on
\* self.process and the except branch runs cleanup on nothing.
\* os.killpg(os.getpgid(pid), SIGKILL): the child and its descendants
Killpg(p) == [p EXCEPT !.alive = FALSE, !.kids = FALSE]

StoppedProc(s, p, graceful) ==
  IF ~s.process THEN p
  ELSE IF graceful \/ ~p.alive
       THEN CleanupProc(s, [p EXCEPT !.alive = FALSE, !.reaped = TRUE])
       ELSE CleanupProc(s, Killpg(p))

StoppedSup(s) == CleanupSup(s)

\* stop() gets through its cleanup
StopReturns(s, p, graceful, readers) ==
  CleanupReturns(s, IF graceful \/ ~p.alive THEN p ELSE Killpg(p), readers)

\* json.dumps(request) + "\n" written to stdin and flushed
Written(p, method, id) == [p EXCEPT !.sent = Append(@, [method |-> method, id |-> id])]

\* mutant: _initialize_server goes on without the initialized notification
Notified_skipped(p) == p

\* _initialize_server, step 2: the initialized notification, written and
\* flushed; it has no id
Notified(p) == Written(p, "notifications/initialized", 0)

\* the write raised BrokenPipeError: the data stays in the buffer
WriteFailed(p) == [p EXCEPT !.dirty = TRUE]

\* ------------------------------------------------------------------ tasks
\* readline calls under way on the stdout of child i: one for every call
\* waiting for a response, and those left behind by requests that timed out
Readers(i) ==
  proc[i].orphans +
    Cardinality({t \in Tasks : \/ task[t].pc \in {"exec_read", "add_disc_read"} /\ task[t].target = i
                               \/ task[t].pc = "add_init_read" /\ task[t].sup = i})

\* run_in_executor(None, readline): the call is handed to the default
\* executor of the loop, a pool of threads shared by every server, which runs
\* it when a thread is free; the calls handed in earlier come first, and a
\* call is handed in after its request was written, so in the order of the
\* request ids.  A readline left behind by a timeout keeps its thread.
Waiting(t) == task[t].pc \in {"exec_read", "add_init_read", "add_disc_read"}

LastId(p, method) ==
  LET K == {k \in 1..Len(p.sent) : p.sent[k].method = method}
  IN IF K = {} THEN 0 ELSE p.sent[CHOOSE k \in K : \A l \in K : l <= k].id

WaitId(t) ==
  CASE task[t].pc = "exec_read" -> task[t].rid
    [] task[t].pc = "add_init_read" -> LastId(proc[task[t].sup], "initialize")
    [] task[t].pc = "add_disc_read" -> LastId(proc[task[t].target], "tools/list")
    [] OTHER -> 0

RECURSIVE OrphanThreads(_)
OrphanThreads(I) ==
  IF I = {} THEN 0
  ELSE LET i == CHOOSE x \in I : TRUE
       IN (IF proc[i].stdout = "open" THEN proc[i].orphans ELSE 0) + OrphanThreads(I \ {i})

HasWorker(t) ==
  OrphanThreads(SupIds)
    + Cardinality({u \in Tasks \ {t} : Waiting(u) /\ WaitId(u) < WaitId(t)}) < Workers

Idle(t) == task[t].pc \in {"idle", "done"}
Quiet == \A t \in Tasks : Idle(t)

CanStart(t) ==
  /\ Idle(t)
  /\ t <= callers
  /\ Cardinality({u \in Tasks : ~Idle(u)}) < callers

Begin(t, op, name) ==
  [IdleTask EXCEPT !.op = op, !.name = name]

Done(tr, result, why) == [tr EXCEPT !.pc = "done", !.result = result, !.why = why]

\* ------------------------------------------------------------------- Init
Init ==
  /\ servers = [n \in Names |-> 0]
  /\ tools = {}
  /\ request_id = 0
  /\ stats = NoStats
  /\ sup = [i \in SupIds |-> NoSup]
  /\ proc = [i \in SupIds |-> NoProc]
  /\ nsup = 0
  /\ task = [t \in Tasks |-> IdleTask]

\* ------------------------------------------------------------- add_server
\* mutant: add_server starts the object it made last once more
NewObject_reused(k) == IF k = 0 THEN 1 ELSE k

\* server = MCPServerProcess(config): every add_server makes its own object
NewObject(k) == k + 1

\* start() on a fresh object (self.process is None, so nothing is stopped
\* first): Popen raised (no child), or the child exists and start() sleeps
Spawn(t, tr, n, S1, T1, St1, sup1, proc1, ok) ==
  IF ok
  THEN LET i == NewObject(nsup) IN
       /\ nsup' = i
       /\ sup' = [sup1 EXCEPT ![i] = [name |-> n, process |-> TRUE, is_running |-> FALSE]]
       /\ proc' = [proc1 EXCEPT ![i] = Popen]
       /\ servers' = S1 /\ tools' = T1 /\ stats' = St1
       /\ task' = [task EXCEPT ![t] = [tr EXCEPT !.pc = "add_sleep", !.sup = i]]
  ELSE /\ nsup' = nsup /\ sup' = sup1 /\ proc' = proc1
       /\ servers' = S1 /\ tools' = T1
       /\ stats' = Failed(St1)
       /\ task' = [task EXCEPT ![t] = Done(tr, "false", "spawn_error")]

SpawnChoices == IF nsup < MaxSup THEN BOOLEAN ELSE {FALSE}

\* add_server, from its first line to the first suspension: the counter, the
\* replace of an existing entry through remove_server, the spawn
add_server(t, n) ==
  /\ CanStart(t)
  /\ stats.servers_created < MaxAdds
  /\ LET tr == [Begin(t, "add", n) EXCEPT !.had = (servers[n] # 0),
                                          !.pre = stats.servers_created]
         St0 == Bump(stats, "servers_created")
         o == servers[n]
     IN IF o # 0 /\ NeedsStop(sup[o])
        THEN /\ proc' = [proc EXCEPT ![o] = Terminate(@)]
             /\ stats' = St0
             /\ task' = [task EXCEPT ![t] = [tr EXCEPT !.pc = "add_rm_stop", !.target = o]]
             /\ UNCHANGED <<servers, tools, sup, nsup>>
        ELSE \E ok \in SpawnChoices :
               IF o # 0
               THEN Spawn(t, tr, n, DelServer(servers, n), RemoveTools(tools, n),
                          Bump(St0, "servers_removed"), sup, proc, ok)
               ELSE Spawn(t, tr, n, servers, tools, St0, sup, proc, ok)
  /\ UNCHANGED <<request_id, callers>>

\* add_server resumed inside remove_server, after stop() waited: cleanup, del
\* (KeyError, swallowed, when the entry is gone), the tools, the counter;
\* then the spawn
add_server_removed(t) ==
  /\ task[t].pc = "add_rm_stop"
  /\ \E graceful \in BOOLEAN, ok \in SpawnChoices :
       LET o == task[t].target
           n == task[t].name
           sup1 == [sup EXCEPT ![o] = StoppedSup(@)]
           proc1 == [proc EXCEPT ![o] = StoppedProc(sup[o], @, graceful)]
       IN /\ StopReturns(sup[o], proc[o], graceful, Readers(o))
          /\ IF servers[n] # 0
             THEN Spawn(t, task[t], n, DelServer(servers, n), RemoveTools(tools, n),
                        Bump(stats, "servers_removed"), sup1, proc1, ok)
             ELSE Spawn(t, task[t], n, servers, tools, stats, sup1, proc1, ok)
  /\ UNCHANGED <<request_id, callers>>

\* send_request up to its suspension, on object s with child p: refuses when
\* the object is not running; cleans up when poll() finds the child dead;
\* writes the request; cleans up when the write raised BrokenPipeError
\* (epipe: the child closed its end of stdin)
SendWaits(s, p, epipe) == s.is_running /\ s.process /\ p.alive /\ ~epipe

\* the cleanup after poll() found the child dead gets through
SendReturns(s, p, readers) ==
  (s.is_running /\ s.process /\ ~p.alive) => CleanupReturns(s, p, readers)

SendSup(s, p, epipe) ==
  IF ~s.is_running \/ ~s.process THEN s
  ELSE IF ~p.alive \/ epipe THEN CleanupSup(s)
  ELSE s

SendProc(s, p, method, id, epipe) ==
  IF ~s.is_running \/ ~s.process THEN p
  ELSE IF ~p.alive THEN CleanupProc(s, Poll(p))
  ELSE IF epipe THEN CleanupProc(s, WriteFailed(p))
  ELSE Written(p, method, id)

\* send_request resumed with nothing to return.  _read_response gave up (end
\* of stream, 50 lines, a failed readline) and None is returned as it is; or
\* wait_for raised asyncio.TimeoutError.  From Python 3.11 on that class is
\* the builtin TimeoutError, a subclass of OSError, so the clause
\* "except (BrokenPipeError, OSError)", which comes first, takes it
\* (oserror): the flag is cleared and _cleanup_process closes the pipes and
\* waits for the child, which has lost its stdin.  On older interpreters the
\* clause "except asyncio.TimeoutError" returns None and touches nothing.
TimeoutSup(s, oserror) ==
  IF oserror THEN CleanupSup([s EXCEPT !.is_running = FALSE]) ELSE s

TimeoutProc(s, p, oserror) ==
  IF oserror THEN CleanupProc(s, p) ELSE p

\* the cleanup of that clause gets through
TimeoutReturns(s, p, oserror, readers) == oserror => CleanupReturns(s, p, readers)

\* the readline call of a request that timed out stays behind in the
\* executor, unless the end of the stream has let it return
Abandoned(p) == IF p.alive \/ p.kids THEN [p EXCEPT !.orphans = @ + 1] ELSE p

\* _read_response handing a line with the request's id to send_request: the
\* handle must still be there and stdout still open
CanRead(j) == j # 0 /\ sup[j].process /\ proc[j].stdout = "open"

Responses == {"result", "bare", "error", "none"}

\* add_server after _initialize_server returned False: the counter,
\* server.stop() up to its suspension, or straight on to the del
FailInit(t, tr, S1, St1, sup1, proc1, why) ==
  LET i == tr.sup
      n == tr.name
  IN /\ stats' = Failed(St1)
     /\ sup' = sup1
     /\ IF NeedsStop(sup1[i])
        THEN /\ proc' = [proc1 EXCEPT ![i] = Terminate(@)]
             /\ servers' = S1
             /\ task' = [task EXCEPT ![t] =
                           [tr EXCEPT !.pc = "add_fail_stop", !.why = why,
                                      !.snap = [NoSnap EXCEPT !.alive = proc1[i].alive]]]
        ELSE /\ proc' = proc1
             /\ servers' = DelServer(S1, n)
             /\ task' = [task EXCEPT ![t] =
                           Done([tr EXCEPT !.snap = [NoSnap EXCEPT !.alive = proc1[i].alive]],
                                "false", why)]

\* start() resumed after the 0.5 s sleep: the liveness probe; then add_server
\* stores the object and _initialize_server sends the initialize request
add_server_started(t) ==
  /\ task[t].pc = "add_sleep"
  /\ LET tr == task[t]
         i == tr.sup
         n == tr.name
     IN IF ~proc[i].alive
        THEN /\ sup' = [sup EXCEPT ![i] = CleanupSup(@)]
             /\ proc' = [proc EXCEPT ![i] = CleanupProc(sup[i], Poll(@))]
             /\ stats' = Failed(stats)
             /\ task' = [task EXCEPT ![t] = Done(tr, "false", "early_exit")]
             /\ UNCHANGED <<servers, request_id>>
        ELSE /\ request_id < MaxReq
             /\ request_id' = NextId(request_id)
             /\ \E epipe \in BOOLEAN :
                  LET s1 == [sup[i] EXCEPT !.is_running = TRUE]
                      S1 == [servers EXCEPT ![n] = i]
                      sup1 == [sup EXCEPT ![i] = SendSup(s1, proc[i], epipe)]
                      proc1 == [proc EXCEPT ![i] =
                                  SendProc(s1, @, "initialize", NextId(request_id), epipe)]
                  IN IF SendWaits(s1, proc[i], epipe)
                     THEN /\ sup' = sup1 /\ proc' = proc1 /\ servers' = S1
                          /\ task' = [task EXCEPT ![t] = [tr EXCEPT !.pc = "add_init_read"]]
                          /\ stats' = stats
                     ELSE FailInit(t, tr, S1, stats, sup1, proc1, "init_epipe")
  /\ UNCHANGED <<tools, nsup, callers>>

\* _discover_tools up to the suspension of its send_request
Discover(t, tr, proc1, epipe) ==
  LET n == tr.name
      j == servers[n]
  IN /\ servers' = servers /\ stats' = stats
     /\ IF j = 0
        THEN /\ sup' = sup /\ proc' = proc1 /\ request_id' = request_id
             /\ task' = [task EXCEPT ![t] = Done(tr, "true", "no_server")]
        ELSE /\ request_id < MaxReq
             /\ SendReturns(sup[j], proc1[j], Readers(j))
             /\ request_id' = NextId(request_id)
             /\ sup' = [sup EXCEPT ![j] = SendSup(@, proc1[j], epipe)]
             /\ proc' = [proc1 EXCEPT ![j] =
                           SendProc(sup[j], @, "tools/list", NextId(request_id), epipe)]
             /\ task' = [task EXCEPT ![t] =
                           IF SendWaits(sup[j], proc1[j], epipe)
                           THEN [tr EXCEPT !.pc = "add_disc_read", !.target = j]
                           ELSE Done(tr, "true", "no_list")]

\* _initialize_server resumed with the answer to initialize (or None); on
\* success the initialized notification is written, then discovery starts
add_server_initialized(t) ==
  /\ task[t].pc = "add_init_read"
  /\ \E out \in Responses, epipe \in BOOLEAN, oserror \in BOOLEAN :
       LET tr == task[t]
           i == tr.sup
       IN /\ out # "none" => CanRead(i) /\ ~oserror
          /\ TimeoutReturns(sup[i], proc[i], oserror, Readers(i))
          /\ IF out \in {"error", "none"}
             THEN /\ ~epipe
                  /\ FailInit(t, tr, servers, stats,
                              [sup EXCEPT ![i] = TimeoutSup(@, oserror)],
                              [proc EXCEPT ![i] = TimeoutProc(sup[i], @, oserror)],
                              IF out = "error" THEN "init_error" ELSE "init_none")
                  /\ request_id' = request_id
             ELSE \/ /\ epipe \/ ~proc[i].alive
                     /\ FailInit(t, tr, servers, stats, sup,
                                 [proc EXCEPT ![i] = WriteFailed(@)], "notif_epipe")
                     /\ request_id' = request_id
                  \/ /\ ~epipe /\ proc[i].alive
                     /\ \E epipe2 \in BOOLEAN :
                          Discover(t, tr, [proc EXCEPT ![i] = Notified(@)], epipe2)
  /\ UNCHANGED <<tools, nsup, callers>>

\* add_server resumed after server.stop() waited: cleanup, the del, False
add_server_stopped(t) ==
  /\ task[t].pc = "add_fail_stop"
  /\ \E graceful \in BOOLEAN :
       LET tr == task[t]
           i == tr.sup
       IN /\ StopReturns(sup[i], proc[i], graceful, Readers(i))
          /\ sup' = [sup EXCEPT ![i] = StoppedSup(@)]
          /\ proc' = [proc EXCEPT ![i] = StoppedProc(sup[i], @, graceful)]
          /\ servers' = DelServer(servers, tr.name)
          /\ task' = [task EXCEPT ![t] = Done(tr, "false", tr.why)]
  /\ UNCHANGED <<tools, request_id, stats, nsup, callers>>

\* _discover_tools resumed with the answer to tools/list (or None)
add_server_discovered(t) ==
  /\ task[t].pc = "add_disc_read"
  /\ \E out \in Responses, tl \in SUBSET ToolNames, oserror \in BOOLEAN :
       LET tr == task[t]
           j == tr.target
       IN /\ out # "none" => CanRead(j) /\ ~oserror
          /\ out # "result" => tl = {}
          /\ TimeoutReturns(sup[j], proc[j], oserror, Readers(j))
          /\ tools' = IF out = "result" THEN PutTools(tools, tr.name, tl) ELSE tools
          /\ sup' = [sup EXCEPT ![j] = TimeoutSup(@, oserror)]
          /\ proc' = [proc EXCEPT ![j] = TimeoutProc(sup[j], @, oserror)]
          /\ task' = [task EXCEPT ![t] =
                        [Done(tr, "true", IF out = "result" THEN "listed" ELSE "no_list")
                           EXCEPT !.reported = tl]]
  /\ UNCHANGED <<servers, request_id, stats, nsup, callers>>

\* ---------------------------------------------------------- remove_server
\* the del, the tools_to_remove loop and the counter of remove_server
remove_server(t, n) ==
  /\ CanStart(t)
  /\ LET tr == [Begin(t, "remove", n) EXCEPT !.had = (servers[n] # 0),
                                             !.pre = stats.servers_removed]
         o == servers[n]
     IN IF o = 0
        THEN /\ task' = [task EXCEPT ![t] = Done(tr, "false", "not_found")]
             /\ UNCHANGED <<servers, tools, stats, proc>>
        ELSE IF NeedsStop(sup[o])
        THEN /\ proc' = [proc EXCEPT ![o] = Terminate(@)]
             /\ task' = [task EXCEPT ![t] = [tr EXCEPT !.pc = "rm_stop", !.target = o]]
             /\ UNCHANGED <<servers, tools, stats>>
        ELSE /\ servers' = DelServer(servers, n)
             /\ tools' = RemoveTools(tools, n)
             /\ stats' = Bump(stats, "servers_removed")
             /\ task' = [task EXCEPT ![t] = Done(tr, "true", "removed")]
             /\ UNCHANGED proc
  /\ UNCHANGED <<request_id, sup, nsup, callers>>

\* remove_server resumed after stop() waited; the del raises KeyError, caught
\* by the except branch, when the entry went away during the wait
remove_server_stopped(t) ==
  /\ task[t].pc = "rm_stop"
  /\ \E graceful \in BOOLEAN :
       LET tr == task[t]
           o == tr.target
           n == tr.name
       IN /\ StopReturns(sup[o], proc[o], graceful, Readers(o))
          /\ sup' = [sup EXCEPT ![o] = StoppedSup(@)]
          /\ proc' = [proc EXCEPT ![o] = StoppedProc(sup[o], @, graceful)]
          /\ IF servers[n] = 0
             THEN /\ task' = [task EXCEPT ![t] = Done(tr, "false", "keyerror")]
                  /\ UNCHANGED <<servers, tools, stats>>
             ELSE /\ servers' = DelServer(servers, n)
                  /\ tools' = RemoveTools(tools, n)
                  /\ stats' = Bump(stats, "servers_removed")
                  /\ task' = [task EXCEPT ![t] = Done(tr, "true", "removed")]
  /\ UNCHANGED <<request_id, nsup, callers>>

\* --------------------------------------------------------------- shutdown
\* mutant: force_shutdown and shutdown forget self.tools.clear()
ClearedTools_kept == tools

\* self.servers.clear(), self.tools.clear()
ClearedServers == [n \in Names |-> 0]
ClearedTools == {}

\* the loop of shutdown over its snapshot, up to the next stop() that has to
\* wait; with none left, both dicts are cleared
ShutdownLoop(t, tr, sup1, proc1) ==
  /\ sup' = sup1
  /\ IF \E i \in tr.todo : NeedsStop(sup1[i])
     THEN \E i \in tr.todo :
            /\ NeedsStop(sup1[i])
            /\ proc' = [proc1 EXCEPT ![i] = Terminate(@)]
            /\ task' = [task EXCEPT ![t] =
                          [tr EXCEPT !.pc = "sd_stop", !.target = i, !.todo = @ \ {i}]]
            /\ UNCHANGED <<servers, tools>>
     ELSE /\ proc' = proc1
          /\ servers' = ClearedServers
          /\ tools' = ClearedTools
          /\ task' = [task EXCEPT ![t] = Done([tr EXCEPT !.todo = {}], "none", "cleared")]

shutdown(t) ==
  /\ CanStart(t)
  /\ ShutdownLoop(t, [Begin(t, "shutdown", "") EXCEPT
                        !.todo = {servers[n] : n \in Names} \ {0},
                        !.live = {i \in {servers[n] : n \in Names} \ {0} : proc[i].alive}],
                  sup, proc)
  /\ UNCHANGED <<request_id, stats, nsup, callers>>

shutdown_stopped(t) ==
  /\ task[t].pc = "sd_stop"
  /\ \E graceful \in BOOLEAN :
       LET o == task[t].target
       IN /\ StopReturns(sup[o], proc[o], graceful, Readers(o))
          /\ ShutdownLoop(t, task[t], [sup EXCEPT ![o] = StoppedSup(@)],
                          [proc EXCEPT ![o] = StoppedProc(sup[o], @, graceful)])
  /\ UNCHANGED <<request_id, stats, nsup, callers>>

\* --------------------------------------------------------- force_shutdown
\* Popen.kill(): polls first, SIGKILLs a live child; nobody waits for it
Kill(p) == IF p.alive THEN [p EXCEPT !.alive = FALSE] ELSE Poll(p)

ForceKills == {servers[n] : n \in Names} \cap {i \in SupIds : NeedsStop(sup[i])}

force_shutdown(t) ==
  /\ CanStart(t)
  /\ sup' = [i \in SupIds |-> IF i \in ForceKills
                              THEN [sup[i] EXCEPT !.is_running = FALSE] ELSE sup[i]]
  /\ proc' = [i \in SupIds |-> IF i \in ForceKills THEN Kill(proc[i]) ELSE proc[i]]
  /\ servers' = ClearedServers
  /\ tools' = ClearedTools
  /\ task' = [task EXCEPT ![t] =
                Done([Begin(t, "force", "") EXCEPT !.todo = ForceKills,
                                                  !.again = (task[t].op = "force")],
                     "none", "cleared")]
  /\ UNCHANGED <<request_id, stats, nsup, callers>>

\* ----------------------------------------------------------- execute_tool
Snap(j) == [is_running |-> sup[j].is_running, process |-> sup[j].process,
            stdin |-> proc[j].stdin, stdout |-> proc[j].stdout,
            stderr |-> proc[j].stderr, alive |-> proc[j].alive]

\* mutant: execute_tool without the is_running guard
NotRunning_unchecked(j) == FALSE

\* the two guards of execute_tool: no entry, or an entry that is not running
NotFound(j) == j = 0
NotRunning(j) == ~sup[j].is_running

\* mutant: the result object is returned whole, content or not
Outcome_whole(out, content) ==
  CASE out = "none" -> "TypeError"
    [] out = "error" -> "ToolError"
    [] OTHER -> "result"

\* what execute_tool does with the value of send_request: None makes the test
\* "error" in response raise TypeError; an error field raises the exception
\* with the child's message; otherwise result["content"] when result has it,
\* else result ({} when the response has no result field: "bare")
Outcome(out, content) ==
  CASE out = "none" -> "TypeError"
    [] out = "error" -> "ToolError"
    [] out = "bare" -> "result"
    [] OTHER -> IF content THEN "content" ELSE "result"

\* the tag kept of what send_request returned
Ending(out, content) ==
  CASE out = "none" -> "timeout"
    [] out = "error" -> "error"
    [] out = "bare" -> "bare"
    [] OTHER -> IF content THEN "with_content" ELSE "answered"

execute_tool(t, n, tool) ==
  /\ CanStart(t)
  /\ LET j == servers[n]
         tr == [Begin(t, "exec", n) EXCEPT !.tool = tool, !.had = (j # 0), !.target = j,
                                           !.snap = IF j = 0 THEN NoSnap ELSE Snap(j)]
     IN IF NotFound(j)
        THEN /\ task' = [task EXCEPT ![t] = Done(tr, "ValueError", "not_found")]
             /\ UNCHANGED <<request_id, sup, proc>>
        ELSE IF NotRunning(j)
        THEN /\ task' = [task EXCEPT ![t] = Done(tr, "ValueError", "not_running")]
             /\ UNCHANGED <<request_id, sup, proc>>
        ELSE /\ request_id < MaxReq
             /\ SendReturns(sup[j], proc[j], Readers(j))
             /\ request_id' = NextId(request_id)
             /\ \E epipe \in BOOLEAN :
                  /\ sup' = [sup EXCEPT ![j] = SendSup(@, proc[j], epipe)]
                  /\ proc' = [proc EXCEPT ![j] =
                                SendProc(sup[j], @, "tools/call", NextId(request_id), epipe)]
                  /\ task' = [task EXCEPT ![t] =
                                IF SendWaits(sup[j], proc[j], epipe)
                                THEN [tr EXCEPT !.pc = "exec_read", !.rid = NextId(request_id)]
                                ELSE Done([tr EXCEPT !.rid = NextId(request_id)],
                                          Outcome("none", FALSE),
                                          IF proc[j].alive /\ sup[j].process
                                          THEN "epipe" ELSE "dead")]
  /\ UNCHANGED <<servers, tools, stats, nsup, callers>>

\* execute_tool resumed with the answer to tools/call, or with None, on which
\* the test "error" in response raises TypeError
execute_tool_answered(t) ==
  /\ task[t].pc = "exec_read"
  /\ \E out \in Responses, content \in BOOLEAN, oserror \in BOOLEAN :
       LET j == task[t].target
       IN /\ out # "none" => CanRead(j) /\ ~oserror
          /\ out # "result" => ~content
          /\ TimeoutReturns(sup[j], proc[j], oserror, Readers(j))
          /\ sup' = [sup EXCEPT ![j] = TimeoutSup(@, oserror)]
          /\ proc' = [proc EXCEPT ![j] = TimeoutProc(sup[j], @, oserror)]
          /\ task' = [task EXCEPT ![t] =
                        Done(@, Outcome(out, content),
                             IF out = "none" /\ ~proc[j].alive THEN "eof"
                             ELSE Ending(out, content))]
  /\ UNCHANGED <<servers, tools, request_id, stats, nsup, callers>>

\* mutant: a blank line does not use up one of the max_lines passes
Iterations_blank_free(nread, l) == IF l.kind = "blank" THEN nread ELSE nread + 1

\* for _ in range(max_lines): every line read, whatever it holds, is one pass
Iterations(nread, l) == nread + 1

\* readline returns "" once the child and every descendant holding the pipe
\* have exited and nothing is left to read
EndOfStream(p) == ~p.alive /\ ~p.kids /\ p.lines = <<>>

\* the same resumption, line by line: the readline of this call's
\* _read_response takes the next line of stdout and the loop handles it;
\* after max_lines lines, or on a line that makes it break, the call gets
\* None.  Which of the readline calls under way gets the next line depends
\* on the order in which they took the lock of the reader: any of them may.
execute_tool_read(t) ==
  /\ task[t].pc = "exec_read"
  /\ LET j == task[t].target
         l == Head(proc[j].lines)
         n == Iterations(task[t].nread, l)
         skipped == [task[t] EXCEPT !.nread = n, !.dropped = @ \cup ({l.id} \ {0})]
     IN /\ CanRead(j)
        /\ proc[j].lines # <<>>
        /\ proc' = [proc EXCEPT ![j] = [@ EXCEPT !.lines = Tail(@)]]
        /\ CASE ReadLine(l, task[t].rid) = "return" ->
                  \E out \in Responses \ {"none"}, content \in BOOLEAN :
                    /\ out = "result" <=> l.result
                    /\ out # "result" => ~content
                    /\ task' = [task EXCEPT ![t] =
                                  Done([@ EXCEPT !.nread = n],
                                       Outcome(out, content), Ending(out, content))]
             [] ReadLine(l, task[t].rid) = "stop" \/ n = max_lines ->
                  task' = [task EXCEPT ![t] = Done(skipped, Outcome("none", FALSE), "gave_up")]
             [] OTHER ->
                  task' = [task EXCEPT ![t] = skipped]
  /\ UNCHANGED <<servers, tools, request_id, stats, sup, nsup, callers>>

\* readline returned "": "if not line: break", _read_response returns None and
\* send_request hands it on, touching nothing
execute_tool_eof(t) ==
  /\ task[t].pc = "exec_read"
  /\ CanRead(task[t].target)
  /\ EndOfStream(proc[task[t].target])
  /\ task' = [task EXCEPT ![t] = Done(@, Outcome("none", FALSE), "end_of_stream")]
  /\ UNCHANGED <<servers, tools, request_id, stats, sup, proc, nsup, callers>>

\* wait_for ran out of time, or readline returned end of stream
execute_tool_timeout(t) ==
  /\ task[t].pc = "exec_read"
  /\ \E oserror \in BOOLEAN :
       LET j == task[t].target
       IN /\ TimeoutReturns(sup[j], proc[j], oserror, Readers(j))
          /\ sup' = [sup EXCEPT ![j] = TimeoutSup(@, oserror)]
          /\ proc' = [proc EXCEPT ![j] =
                        IF oserror THEN TimeoutProc(sup[j], @, oserror) ELSE Abandoned(@)]
          /\ task' = [task EXCEPT ![t] =
                        Done(@, Outcome("none", FALSE),
                             IF proc[j].alive THEN Ending("none", FALSE) ELSE "eof")]
  /\ UNCHANGED <<servers, tools, request_id, stats, nsup, callers>>

\* a readline call left behind by a request that timed out takes the next
\* line of stdout; nobody looks at what it returns
orphan_read(i) ==
  /\ proc[i].orphans > 0
  /\ proc[i].stdout = "open"
  /\ proc[i].lines # <<>>
  /\ proc' = [proc EXCEPT ![i] = [@ EXCEPT !.lines = Tail(@), !.orphans = @ - 1]]
  /\ UNCHANGED <<servers, tools, request_id, stats, sup, nsup, task, callers>>

\* ----------------------------------------------------------- health_check
process_alive(i) == sup[i].process /\ proc[i].alive

HealthEntry(n) ==
  LET i == servers[n]
  IN [name |-> n, running |-> sup[i].is_running /\ process_alive(i),
      process_alive |-> process_alive(i),
      tools |-> Cardinality(get_tools_by_server(tools, n)),
      pid |-> IF sup[i].process THEN i ELSE 0]

\* mutant: health_check drops the handle of a dead child as well
Corrected_dropped(s) == [s EXCEPT !.is_running = FALSE, !.process = FALSE]

\* server.is_running = False
Corrected(s) == [s EXCEPT !.is_running = FALSE]

\* mutant: the flag is reported but never corrected
Stale_ignored(i) == FALSE

\* if server.is_running and not process_alive
Stale(i) == sup[i].is_running /\ ~process_alive(i)

health_check(t) ==
  /\ CanStart(t)
  /\ LET known == {servers[n] : n \in Names} \ {0}
     IN /\ sup' = [i \in SupIds |->
                     IF i \in known /\ Stale(i)
                     THEN Corrected(sup[i]) ELSE sup[i]]
        /\ proc' = [i \in SupIds |->
                     IF i \in known /\ sup[i].process THEN Poll(proc[i]) ELSE proc[i]]
        /\ task' = [task EXCEPT ![t] =
                      Done([Begin(t, "health", "") EXCEPT
                              !.report = {HealthEntry(n) : n \in {m \in Names : servers[m] # 0}},
                              !.todo = {i \in known : sup[i].is_running /\ ~process_alive(i)}],
                           "report", "report")]
  /\ UNCHANGED <<servers, tools, request_id, stats, nsup, callers>>

\* --------------------------------------------- GET /mcp/health (api/server.py)
\* what health_check leaves behind and reports, as functions of the state
CheckedSup(S, su, pr) ==
  [i \in SupIds |->
     IF i \in {S[n] : n \in Names} \ {0} /\ su[i].is_running /\ ~(su[i].process /\ pr[i].alive)
     THEN Corrected(su[i]) ELSE su[i]]

CheckedProc(S, su, pr) ==
  [i \in SupIds |->
     IF i \in {S[n] : n \in Names} \ {0} /\ su[i].process THEN Poll(pr[i]) ELSE pr[i]]

Report(S, T, su, pr) ==
  {[name |-> n,
    running |-> su[S[n]].is_running /\ su[S[n]].process /\ pr[S[n]].alive,
    process_alive |-> su[S[n]].process /\ pr[S[n]].alive,
    tools |-> Cardinality(get_tools_by_server(T, n)),
    pid |-> IF su[S[n]].process THEN S[n] ELSE 0] : n \in {m \in Names : S[m] # 0}}

\* the servers the handler removes: reported not running, with a handle
\* whose poll() is not None
DeadServers(S, T, su, pr) ==
  {e.name : e \in {x \in Report(S, T, su, pr) :
                     ~x.running /\ su[S[x.name]].process /\ ~pr[S[x.name]].alive}}

RECURSIVE RemoveAll(_, _)
RemoveAll(T, ns) ==
  IF ns = {} THEN T
  ELSE LET n == CHOOSE x \in ns : TRUE IN RemoveAll(RemoveTools(T, n), ns \ {n})

\* mcp_health_check: health_check; remove_server for every dead server (its
\* stop() finds is_running cleared by health_check and does nothing, so no
\* step of the handler suspends); when any was removed, health_check again
\* and cleaned_up added to the report
mcp_health_check(t) ==
  /\ CanStart(t)
  /\ LET sup1 == CheckedSup(servers, sup, proc)
         proc1 == CheckedProc(servers, sup, proc)
         first == Report(servers, tools, sup, proc)
         dead == DeadServers(servers, tools, sup, proc)
         S1 == [n \in Names |-> IF n \in dead THEN 0 ELSE servers[n]]
         T1 == RemoveAll(tools, dead)
     IN /\ sup' = sup1
        /\ proc' = proc1
        /\ servers' = S1
        /\ tools' = T1
        /\ stats' = [stats EXCEPT !.servers_removed = @ + Cardinality(dead)]
        /\ task' = [task EXCEPT ![t] =
                      Done([Begin(t, "mcp_health", "") EXCEPT
                              !.report = IF dead = {} THEN first
                                         ELSE Report(S1, T1, sup1, proc1),
                              !.todo = {servers[e.name] : e \in {x \in first : ~x.running}},
                              !.cleaned_up = dead],
                           "report", IF dead = {} THEN "report" ELSE "cleaned_up")]
  /\ UNCHANGED <<request_id, nsup, callers>>

\* ------------------------------------------------------------ environment
\* a child exits on its own
child_exit(i) ==
  /\ proc[i].alive
  /\ proc' = [proc EXCEPT ![i] = [@ EXCEPT !.alive = FALSE]]
  /\ UNCHANGED <<servers, tools, request_id, stats, sup, nsup, task, callers>>

\* a child answers a tools/call request with one line on stdout carrying the
\* request's id; it answers in the order of the requests and may leave
\* requests out (its answers to initialize and tools/list are part of
\* add_server_initialized, add_server_discovered)
Unanswered(p) ==
  {k \in 1..Len(p.sent) : p.sent[k].method = "tools/call" /\ p.sent[k].id > p.last}

child_answer(i) ==
  /\ proc[i].alive
  /\ Unanswered(proc[i]) # {}
  /\ \E k \in Unanswered(proc[i]), result \in BOOLEAN :
       LET id == proc[i].sent[k].id
       IN proc' = [proc EXCEPT ![i] =
                     [@ EXCEPT !.last = id, !.lines = Append(@, Object("", id, result))]]
  /\ UNCHANGED <<servers, tools, request_id, stats, sup, nsup, task, callers>>

\* what a child may write besides its answers: a blank line, a log line, a
\* JSON value that is no object, a notification, a result without id, a
\* request of its own to the client, whose id may be that of a pending request
Pending(p) == {p.sent[k].id : k \in Unanswered(p)}

Unsolicited(p) ==
  {Blank, Text, Value, Object("notifications/message", 0, FALSE),
   Object("other", 0, FALSE), Object("", 0, TRUE)}
  \cup {Object("other", id, FALSE) : id \in Pending(p)}

child_write(i) ==
  /\ proc[i].alive
  /\ Len(proc[i].lines) < MaxLines
  /\ \E l \in Unsolicited(proc[i]) :
       proc' = [proc EXCEPT ![i] = [@ EXCEPT !.lines = Append(@, l)]]
  /\ UNCHANGED <<servers, tools, request_id, stats, sup, nsup, task, callers>>

\* a child starts a process of its own, which inherits its pipes and its
\* process group; such a process exits on its own
child_fork(i) ==
  /\ proc[i].alive
  /\ ~proc[i].kids
  /\ proc' = [proc EXCEPT ![i] = [@ EXCEPT !.kids = TRUE]]
  /\ UNCHANGED <<servers, tools, request_id, stats, sup, nsup, task, callers>>

descendant_exit(i) ==
  /\ proc[i].kids
  /\ proc' = [proc EXCEPT ![i] = [@ EXCEPT !.kids = FALSE]]
  /\ UNCHANGED <<servers, tools, request_id, stats, sup, nsup, task, callers>>

\* --------------------------------------------------------- specifications
Next ==
  \/ \E t \in Tasks, n \in Names : add_server(t, n)
  \/ \E t \in Tasks : add_server_removed(t)
  \/ \E t \in Tasks : add_server_started(t)
  \/ \E t \in Tasks : add_server_initialized(t)
  \/ \E t \in Tasks : add_server_stopped(t)
  \/ \E t \in Tasks : add_server_discovered(t)
  \/ \E t \in Tasks, n \in Names : remove_server(t, n)
  \/ \E t \in Tasks : remove_server_stopped(t)
  \/ \E t \in Tasks : shutdown(t)
  \/ \E t \in Tasks : shutdown_stopped(t)
  \/ \E t \in Tasks : force_shutdown(t)
  \/ \E t \in Tasks, n \in Names, tool \in CallNames : execute_tool(t, n, tool)
  \/ \E t \in Tasks : execute_tool_answered(t)
  \/ \E t \in Tasks : health_check(t)
  \/ \E i \in SupIds : child_exit(i)

\* the calls are made one at a time
InitSeq == Init /\ callers = 1
Spec == InitSeq /\ [][Next]_vars

\* the calls are made one at a time and force_shutdown is never called
NextNoForce ==
  \/ \E t \in Tasks, n \in Names : add_server(t, n)
  \/ \E t \in Tasks : add_server_removed(t)
  \/ \E t \in Tasks : add_server_started(t)
  \/ \E t \in Tasks : add_server_initialized(t)
  \/ \E t \in Tasks : add_server_stopped(t)
  \/ \E t \in Tasks : add_server_discovered(t)
  \/ \E t \in Tasks, n \in Names : remove_server(t, n)
  \/ \E t \in Tasks : remove_server_stopped(t)
  \/ \E t \in Tasks : shutdown(t)
  \/ \E t \in Tasks : shutdown_stopped(t)
  \/ \E t \in Tasks, n \in Names, tool \in CallNames : execute_tool(t, n, tool)
  \/ \E t \in Tasks : execute_tool_answered(t)
  \/ \E t \in Tasks : health_check(t)
  \/ \E i \in SupIds : child_exit(i)

SpecNoForce == InitSeq /\ [][NextNoForce]_vars

\* only add_server is called, by every task, the calls overlapping at will
NextAdd ==
  \/ \E t \in Tasks, n \in Names : add_server(t, n)
  \/ \E t \in Tasks : add_server_removed(t)
  \/ \E t \in Tasks : add_server_started(t)
  \/ \E t \in Tasks : add_server_initialized(t)
  \/ \E t \in Tasks : add_server_stopped(t)
  \/ \E t \in Tasks : add_server_discovered(t)
  \/ \E i \in SupIds : child_exit(i)

InitConc == Init /\ callers = Cardinality(Tasks)
SpecAdd == InitConc /\ [][NextAdd]_vars

\* add_server and remove_server are called by every task, overlapping at will
NextAddRemove ==
  \/ \E t \in Tasks, n \in Names : add_server(t, n)
  \/ \E t \in Tasks : add_server_removed(t)
  \/ \E t \in Tasks : add_server_started(t)
  \/ \E t \in Tasks : add_server_initialized(t)
  \/ \E t \in Tasks : add_server_stopped(t)
  \/ \E t \in Tasks : add_server_discovered(t)
  \/ \E t \in Tasks, n \in Names : remove_server(t, n)
  \/ \E t \in Tasks : remove_server_stopped(t)
  \/ \E i \in SupIds : child_exit(i)

SpecAddRemove == InitConc /\ [][NextAddRemove]_vars

\* servers are added by one caller, one call at a time; between these calls
\* execute_tool is called by every task, the calls overlapping at will, the
\* children answering line by line and living until they are stopped
Adding == \E t \in Tasks : task[t].op = "add" /\ task[t].pc # "done"

NextExec ==
  \/ \E n \in Names : Quiet /\ add_server(1, n)
  \/ \E t \in Tasks : add_server_removed(t)
  \/ \E t \in Tasks : add_server_started(t)
  \/ \E t \in Tasks : add_server_initialized(t)
  \/ \E t \in Tasks : add_server_stopped(t)
  \/ \E t \in Tasks : add_server_discovered(t)
  \/ \E t \in Tasks, n \in Names, tool \in CallNames : ~Adding /\ execute_tool(t, n, tool)
  \/ \E t \in Tasks : execute_tool_read(t)
  \/ \E t \in Tasks : execute_tool_timeout(t)
  \/ \E i \in SupIds : child_answer(i)
  \/ \E i \in SupIds : orphan_read(i)

SpecExec == InitConc /\ [][NextExec]_vars

\* the calls are made one at a time: add_server, execute_tool, remove_server
\* and shutdown; the children answer line by line or leave a request
\* unanswered, start processes of their own, and exit when they choose to,
\* on SIGTERM for instance
NextStop ==
  \/ \E t \in Tasks, n \in Names : add_server(t, n)
  \/ \E t \in Tasks : add_server_removed(t)
  \/ \E t \in Tasks : add_server_started(t)
  \/ \E t \in Tasks : add_server_initialized(t)
  \/ \E t \in Tasks : add_server_stopped(t)
  \/ \E t \in Tasks : add_server_discovered(t)
  \/ \E t \in Tasks, n \in Names, tool \in CallNames : execute_tool(t, n, tool)
  \/ \E t \in Tasks : execute_tool_read(t)
  \/ \E t \in Tasks : execute_tool_timeout(t)
  \/ \E t \in Tasks, n \in Names : remove_server(t, n)
  \/ \E t \in Tasks : remove_server_stopped(t)
  \/ \E t \in Tasks : shutdown(t)
  \/ \E t \in Tasks : shutdown_stopped(t)
  \/ \E i \in SupIds : child_answer(i)
  \/ \E i \in SupIds : orphan_read(i)
  \/ \E i \in SupIds : child_fork(i)
  \/ \E i \in SupIds : descendant_exit(i)
  \/ \E i \in SupIds : child_exit(i)

SpecStop == InitSeq /\ [][NextStop]_vars

\* the event loop resumes a coroutine once the thing it waits for in stop()
\* has happened: the child was seen to have exited, or the 2 s ran out
SpecStopFair ==
  /\ SpecStop
  /\ WF_vars(\E t \in Tasks : add_server_removed(t))
  /\ WF_vars(\E t \in Tasks : add_server_stopped(t))
  /\ WF_vars(\E t \in Tasks : remove_server_stopped(t))
  /\ WF_vars(\E t \in Tasks : shutdown_stopped(t))

\* one caller adds one server and then calls execute_tool, one call at a
\* time; while a call waits, the child writes answers and whatever else it
\* likes on stdout
Awaited(i) == \E t \in Tasks : task[t].pc = "exec_read" /\ task[t].target = i

NextRead ==
  \/ \E t \in Tasks, n \in Names : nsup = 0 /\ add_server(t, n)
  \/ \E t \in Tasks : add_server_started(t)
  \/ \E t \in Tasks : add_server_initialized(t)
  \/ \E t \in Tasks : add_server_stopped(t)
  \/ \E t \in Tasks : add_server_discovered(t)
  \/ \E t \in Tasks, n \in Names, tool \in CallNames : execute_tool(t, n, tool)
  \/ \E t \in Tasks : execute_tool_read(t)
  \/ \E t \in Tasks : execute_tool_timeout(t)
  \/ \E i \in SupIds : child_answer(i)
  \/ \E i \in SupIds : Awaited(i) /\ child_write(i)
  \/ \E i \in SupIds : orphan_read(i)

SpecRead == InitSeq /\ [][NextRead]_vars

\* add_server and execute_tool are called by every task, overlapping at
\* will; the readline of a waiting execute_tool runs once the executor has a
\* thread for it (those of the handshake are taken to have theirs)
NextPool ==
  \/ \E t \in Tasks, n \in Names : add_server(t, n)
  \/ \E t \in Tasks : add_server_removed(t)
  \/ \E t \in Tasks : add_server_started(t)
  \/ \E t \in Tasks : add_server_initialized(t)
  \/ \E t \in Tasks : add_server_stopped(t)
  \/ \E t \in Tasks : add_server_discovered(t)
  \/ \E t \in Tasks, n \in Names, tool \in CallNames : execute_tool(t, n, tool)
  \/ \E t \in Tasks : HasWorker(t) /\ execute_tool_read(t)
  \/ \E t \in Tasks : execute_tool_timeout(t)
  \/ \E i \in SupIds : child_answer(i)
  \/ \E i \in SupIds : orphan_read(i)

SpecPool == InitConc /\ [][NextPool]_vars

\* the calls are made one at a time: add_server, execute_tool and the health
\* endpoint
NextHealth ==
  \/ \E t \in Tasks, n \in Names : add_server(t, n)
  \/ \E t \in Tasks : add_server_removed(t)
  \/ \E t \in Tasks : add_server_started(t)
  \/ \E t \in Tasks : add_server_initialized(t)
  \/ \E t \in Tasks : add_server_stopped(t)
  \/ \E t \in Tasks : add_server_discovered(t)
  \/ \E t \in Tasks, n \in Names, tool \in CallNames : execute_tool(t, n, tool)
  \/ \E t \in Tasks : execute_tool_answered(t)
  \/ \E t \in Tasks : mcp_health_check(t)
  \/ \E i \in SupIds : child_exit(i)

SpecHealth == InitSeq /\ [][NextHealth]_vars

\* one caller adds one server and calls execute_tool once; while the call
\* waits the child answers, writes whatever else it likes, or exits, all of
\* it before the timeout of the request runs out
NextBudget ==
  \/ \E n \in Names : nsup = 0 /\ add_server(1, n)
  \/ add_server_started(1)
  \/ add_server_initialized(1)
  \/ add_server_stopped(1)
  \/ add_server_discovered(1)
  \/ \E n \in Names, tool \in CallNames : task[1].op = "add" /\ execute_tool(1, n, tool)
  \/ execute_tool_read(1)
  \/ execute_tool_eof(1)
  \/ \E i \in SupIds : child_answer(i)
  \/ \E i \in SupIds : Awaited(i) /\ child_write(i)
  \/ \E i \in SupIds : Awaited(i) /\ child_exit(i)

SpecBudget == InitSeq /\ [][NextBudget]_vars

\* task 1 calls add_server, one call at a time; task 2 calls shutdown once,
\* while an add_server call is in flight, and no add_server starts later
NextAddShutdown ==
  \/ \E n \in Names : task[2].pc = "idle" /\ add_server(1, n)
  \/ add_server_removed(1)
  \/ add_server_started(1)
  \/ add_server_initialized(1)
  \/ add_server_stopped(1)
  \/ add_server_discovered(1)
  \/ Adding /\ task[2].pc = "idle" /\ shutdown(2)
  \/ shutdown_stopped(2)
  \/ \E i \in SupIds : child_exit(i)

SpecAddShutdown == InitConc /\ [][NextAddShutdown]_vars

\* ------------------------------------------------------------------ claims
IsDone(t, op) == task[t].pc = "done" /\ task[t].op = op
Present == {n \in Names : servers[n] # 0}
PipesClosed(i) ==
  proc[i].stdin = "closed" /\ proc[i].stdout = "closed" /\ proc[i].stderr = "closed"

\* C1: between calls made one at a time (add_server, remove_server,
\* execute_tool, health_check, shutdown), every child that was spawned and
\* whose supervisor is not in servers has exited, has been reaped and has its
\* three pipes closed.
C1_DroppedChildrenReleased ==
  Quiet =>
    \A i \in SupIds :
      (proc[i].spawned /\ \A n \in Names : servers[n] # i) =>
        ~proc[i].alive /\ proc[i].reaped /\ PipesClosed(i)

\* C2: an add_server whose command could not be spawned, or whose child
\* exited during the startup sleep, returns False and leaves no entry for the
\* name in servers and no tool of the name in tools, also when the name had
\* an entry before the call.
SpawnFailed(t) == IsDone(t, "add") /\ task[t].why \in {"spawn_error", "early_exit"}

C2_FailedSpawnLeavesNoTrace ==
  \A t \in Tasks :
    SpawnFailed(t) =>
      /\ task[t].result = "false"
      /\ servers[task[t].name] = 0
      /\ get_tools_by_server(tools, task[t].name) = {}

C2_Witness ==
  \E t \in Tasks : SpawnFailed(t) /\ task[t].had /\ stats.servers_removed > 0

\* C3: an add_server whose child was alive when the initialize response was
\* found missing (no line, timeout, nothing delivered) or erroneous returns
\* False, leaves no entry and no tool for the name, and has stopped the child
\* and closed its pipes.
HandshakeFailed(t) ==
  /\ IsDone(t, "add")
  /\ task[t].why \in {"init_none", "init_error", "init_epipe"}
  /\ task[t].snap.alive

C3_HandshakeFailureTearsDown ==
  \A t \in Tasks :
    HandshakeFailed(t) =>
      /\ task[t].result = "false"
      /\ servers[task[t].name] = 0
      /\ get_tools_by_server(tools, task[t].name) = {}
      /\ ~proc[task[t].sup].alive
      /\ PipesClosed(task[t].sup)

\* C4: after an add_server that returned True the entries of tools owned by
\* the server are exactly the tools of its tools/list result, each under the
\* key "<server>.<name>" and tagged with the server.
C4_RegistryMatchesToolsList ==
  \A t \in Tasks :
    (IsDone(t, "add") /\ task[t].result = "true") =>
      get_tools_by_server(tools, task[t].name) =
        {[key |-> task[t].name \o "." \o x, name |-> x, server_name |-> task[t].name] :
           x \in task[t].reported}

C4_Witness ==
  \E t \in Tasks :
    /\ IsDone(t, "add") /\ task[t].result = "true" /\ task[t].had
    /\ task[t].reported = ToolNames

\* C5: remove_server of a name that has an entry returns True, deletes the
\* entry and every tool of the name and adds one to servers_removed;
\* remove_server of a name without an entry returns False and leaves
\* servers_removed, servers and tools as they were.
C5_Returned ==
  \A t \in Tasks :
    IsDone(t, "remove") =>
      IF task[t].had
      THEN /\ task[t].result = "true"
           /\ servers[task[t].name] = 0
           /\ get_tools_by_server(tools, task[t].name) = {}
           /\ stats.servers_removed = task[t].pre + 1
      ELSE /\ task[t].result = "false"
           /\ stats.servers_removed = task[t].pre

C5_UnknownStep ==
  \A t \in Tasks :
    (task'[t] # task[t] /\ task'[t].op = "remove" /\ task'[t].pc = "done" /\ ~task'[t].had)
      => UNCHANGED <<servers, tools, stats>>

\* C5: both halves: what holds when remove_server has returned, and the step
\* of a remove_server of an unknown name changing nothing.
C5_RemoveServer == [] C5_Returned /\ [][C5_UnknownStep]_vars

C5_Witness ==
  \E t \in Tasks :
    /\ IsDone(t, "remove") /\ task[t].had /\ task[t].why = "removed"
    /\ \E x \in tools : x.server_name # task[t].name

\* C6: when shutdown returns, servers and tools are empty and every child of
\* an entry of servers that was alive when shutdown was called has exited.
C6_ShutdownStopsEverything ==
  \A t \in Tasks :
    IsDone(t, "shutdown") =>
      /\ Present = {}
      /\ tools = {}
      /\ \A i \in task[t].live : ~proc[i].alive

\* C7: force_shutdown leaves servers and tools empty from any state, and a
\* second force_shutdown right after one kills nothing and changes nothing.
ForceStep(t) == task'[t] # task[t] /\ task'[t].op = "force"

C7_Step ==
  \A t \in Tasks :
    ForceStep(t) =>
      /\ task'[t].pc = "done"
      /\ \A n \in Names : servers'[n] = 0
      /\ tools' = {}
      /\ IsDone(t, "force") =>
           /\ task'[t].todo = {}
           /\ UNCHANGED <<servers, tools, request_id, stats, sup, proc, nsup>>

\* C7: every force_shutdown step empties both dicts, and one taken right
\* after another changes nothing.
C7_ForceShutdownIdempotent == [][C7_Step]_vars

C7_Witness ==
  /\ \E t \in Tasks : IsDone(t, "force") /\ task[t].again
  /\ \E i \in SupIds : proc[i].spawned /\ ~proc[i].reaped /\ proc[i].stdout = "open"

\* C8: execute_tool on a name without an entry, or on an entry whose
\* is_running is False, raises the server-not-available error (ValueError)
\* at once: nothing is written to any child and no counter changes.
ExecStep(t) == Idle(t) /\ task'[t] # task[t] /\ task'[t].op = "exec"

C8_Step ==
  \A t \in Tasks :
    (/\ ExecStep(t)
     /\ \/ servers[task'[t].name] = 0
        \/ ~sup[servers[task'[t].name]].is_running)
    => /\ task'[t].pc = "done"
       /\ task'[t].result = "ValueError"
       /\ UNCHANGED <<stats, proc, sup, request_id, servers, tools>>

\* C8: every execute_tool step on an absent or not-running server ends the
\* call with ValueError and changes neither a child nor a counter.
C8_UnavailableServerRejected == [][C8_Step]_vars

C8_Witness ==
  \E t \in Tasks :
    IsDone(t, "exec") /\ task[t].result = "ValueError" /\ task[t].why = "not_running"

\* C9: an execute_tool whose request got no answer within the timeout, the
\* child being alive when the wait ran out, ends in an exception, and
\* is_running, the process handle and the three pipes of the server are what
\* they were before the call.
TimedOut(t) == IsDone(t, "exec") /\ task[t].why = "timeout"

C9_TimeoutLeavesSupervisor ==
  \A t \in Tasks :
    TimedOut(t) =>
      /\ task[t].result = "TypeError"
      /\ [Snap(task[t].target) EXCEPT !.alive = TRUE] = task[t].snap

\* C10: when the only calls made are one add_server per task, with distinct
\* names, overlapping in any way, each with a child that spawned and answered
\* initialize, then every call returned True, servers holds exactly those
\* names, each with the object of its own call, and every entry of tools is
\* keyed and tagged with the server whose tools/list reported it.
HandshakeOk(t) == IsDone(t, "add") /\ task[t].why \in {"listed", "no_list", "no_server"}

DistinctAdds ==
  /\ stats.servers_created = Cardinality(Tasks)
  /\ \A t \in Tasks : HandshakeOk(t)
  /\ \A t, u \in Tasks : t # u => task[t].name # task[u].name

C10_ConcurrentAdds ==
  DistinctAdds =>
    /\ \A t \in Tasks : task[t].result = "true" /\ servers[task[t].name] = task[t].sup
    /\ Present = {task[t].name : t \in Tasks}
    /\ \A x \in tools :
         \E t \in Tasks :
           /\ x.server_name = task[t].name
           /\ x.name \in task[t].reported
           /\ x.key = task[t].name \o "." \o x.name

\* the two calls overlapped: the ids of one child's requests are not adjacent
C10_Witness ==
  /\ DistinctAdds
  /\ \A t \in Tasks : task[t].reported = {"c"}
  /\ \E t \in Tasks :
       LET q == proc[task[t].sup].sent
       IN Len(q) = 3 /\ q[3].id # q[1].id + 1

\* C11: when execute_tool calls overlap, no two of them wait for a response
\* on the same child at the same time, and no call's reader takes and drops
\* the line that answers another call's request.
Reading(t) == task[t].op = "exec" /\ task[t].pc = "exec_read"

C11_SameServerSerialized ==
  \A t, u \in Tasks :
    t # u =>
      /\ (Reading(t) /\ Reading(u)) => task[t].target # task[u].target
      /\ (task[t].op = "exec" /\ task[u].op = "exec") => task[u].rid \notin task[t].dropped

\* C12: at every moment at most one supervisor made for a name holds a child
\* that is alive without a stop() of that supervisor being under way.
Stopping(i) ==
  \E t \in Tasks :
    task[t].pc \in {"add_rm_stop", "add_fail_stop", "rm_stop", "sd_stop"} /\ task[t].target = i

StoppingOwn(i) == \E t \in Tasks : task[t].pc = "add_fail_stop" /\ task[t].sup = i

LiveFor(n) ==
  {i \in SupIds : /\ sup[i].name = n /\ sup[i].process /\ proc[i].alive
                  /\ ~Stopping(i) /\ ~StoppingOwn(i)}

C12_OneChildPerName == \A n \in Names : Cardinality(LiveFor(n)) <= 1

\* C13: no step of an add_server or remove_server call deletes or overwrites
\* the entry of a supervisor that still holds a running child after the step.
HoldsLive(s, p) == s.process /\ s.is_running /\ p.alive

C13_Step ==
  \A n \in Names :
    (servers[n] # 0 /\ servers'[n] # servers[n])
      => ~HoldsLive(sup'[servers[n]], proc'[servers[n]])

C13_EntriesLeaveStopped == [][C13_Step]_vars

\* C14: in every state every entry of tools names a server that has an entry
\* in servers.
C14_ToolsHaveOwner == \A x \in tools : x.server_name \in Present

\* C15: every request written to a child (initialize, tools/list,
\* tools/call) carries an id of at least 1 that no other request written by
\* the MCPClient carries, the ids written to one child grow with the order of
\* writing, the id written last at any moment is the value of the counter,
\* and the initialized notification carries no id (0 stands for none).
Sent(i) == proc[i].sent
IsRequest(m) == m.method # "notifications/initialized"

C15_Ids ==
  \A i \in SupIds : \A k \in 1..Len(Sent(i)) :
    IF IsRequest(Sent(i)[k])
    THEN /\ Sent(i)[k].id >= 1 /\ Sent(i)[k].id <= request_id
         /\ \A j \in SupIds : \A l \in 1..Len(Sent(j)) :
              (IsRequest(Sent(j)[l]) /\ <<j, l>> # <<i, k>>) =>
                /\ Sent(j)[l].id # Sent(i)[k].id
                /\ (j = i /\ l < k) => Sent(j)[l].id < Sent(i)[k].id
    ELSE Sent(i)[k].id = 0

C15_Step ==
  \A i \in SupIds :
    LET n == Len(proc'[i].sent)
    IN (n > Len(proc[i].sent) /\ proc'[i].sent[n].id # 0)
         => proc'[i].sent[n].id = request_id' /\ request_id' > request_id

\* C15: the ids in what has been written are unique and ordered, and every
\* step that writes a request writes the counter's new, larger value.
C15_RequestIdsIncrease == [] C15_Ids /\ [][C15_Step]_vars

\* all three kinds of request were written, by overlapping callers, and one
\* child got requests of both callers
C15_Witness ==
  /\ \A t \in Tasks : task[t].op = "exec" /\ task[t].rid # 0
  /\ task[1].target = task[2].target
  /\ \E t \in Tasks : task[t].pc = "exec_read" /\ task[t].dropped # {}
  /\ \E i \in SupIds : Len(proc[i].sent) >= 5

\* C16: in the report health_check returns, running is true only for an
\* entry whose process_alive is true, and when health_check has returned the
\* is_running flag of every reported server equals its reported running, so
\* no reported server keeps is_running with a process found exited.
C16_HealthCheckCorrectsFlags ==
  \A t \in Tasks :
    IsDone(t, "health") =>
      \A e \in task[t].report :
        /\ e.running => e.process_alive
        /\ servers[e.name] # 0
        /\ sup[servers[e.name]].is_running = e.running
        /\ sup[servers[e.name]].is_running => e.process_alive

\* the probe found a flag that was stale, next to one that was not
C16_Witness ==
  \E t \in Tasks :
    /\ IsDone(t, "health")
    /\ task[t].todo # {}
    /\ \E e \in task[t].report : e.running

\* C17: an execute_tool that got the response to its tools/call raises the
\* tool-execution exception when the response has an error field; otherwise
\* it returns result["content"] when the result has content and the whole
\* result when it has not.
C17_ResponseMapping ==
  \A t \in Tasks :
    IsDone(t, "exec") =>
      /\ task[t].why = "error" => task[t].result = "ToolError"
      /\ task[t].why = "with_content" => task[t].result = "content"
      /\ task[t].why = "answered" => task[t].result = "result"

C17_Witness ==
  \E t \in Tasks :
    /\ IsDone(t, "exec") /\ task[t].why = "with_content"
    /\ sup[task[t].target].is_running

\* C18: an add_server whose handshake succeeded and whose tools/list got no
\* usable result (nothing returned by send_request, a timeout, a response
\* without result) returns True and leaves the name in servers with its own
\* supervisor, is_running set, and no tool of the name in tools.
DiscoveryFailed(t) == IsDone(t, "add") /\ task[t].why = "no_list"

C18_DiscoveryFailureKeepsServer ==
  \A t \in Tasks :
    DiscoveryFailed(t) =>
      /\ task[t].result = "true"
      /\ servers[task[t].name] = task[t].sup
      /\ sup[task[t].sup].is_running
      /\ get_tools_by_server(tools, task[t].name) = {}

\* C19: an add_server that returned True has added exactly one to
\* servers_created, and one that returned False has left it as it was.
C19_CreatedCountsAdmissions ==
  \A t \in Tasks :
    IsDone(t, "add") =>
      stats.servers_created = task[t].pre + (IF task[t].result = "true" THEN 1 ELSE 0)

\* C20: total_requests is the number of tools/call requests written to the
\* children, and an execute_tool that got a response with an error field has
\* added one to failed_requests.
Calls ==
  UNION {{<<i, k>> : k \in {l \in 1..Len(Sent(i)) : Sent(i)[l].method = "tools/call"}} :
           i \in SupIds}

C20_RequestCounters ==
  /\ stats.total_requests = Cardinality(Calls)
  /\ \A t \in Tasks :
       (IsDone(t, "exec") /\ task[t].why = "error") => stats.failed_requests >= 1

\* C21: a stop() that had a child to stop gets back to its caller, whether
\* the child honours SIGTERM or has to be killed after the 2 s, and the child
\* has exited when it does; so every remove_server, shutdown and add_server
\* that waits in stop() goes on.
InStop(t) == task[t].pc \in {"add_rm_stop", "add_fail_stop", "rm_stop", "sd_stop"}
StopTarget(t) == IF task[t].pc = "add_fail_stop" THEN task[t].sup ELSE task[t].target

C21_Step ==
  \A t \in Tasks :
    (InStop(t) /\ task'[t] # task[t]) => ~proc'[StopTarget(t)].alive

C21_StopCompletes ==
  /\ [][C21_Step]_vars
  /\ \A t \in Tasks : InStop(t) ~> ~InStop(t)

\* C22: when force_shutdown has returned, every child it found running has
\* been killed, its three pipes are closed and its exit status is reaped.
C22_ForceShutdownReleases ==
  \A t \in Tasks :
    IsDone(t, "force") =>
      \A i \in task[t].todo : ~proc[i].alive /\ PipesClosed(i) /\ proc[i].reaped

\* C23: when a stop() that had a child to stop returns, neither the child nor
\* a descendant in its process group is alive, whether the child exited on
\* SIGTERM or the group was killed after the 2 s.
C23_Step ==
  \A t \in Tasks :
    (InStop(t) /\ task'[t] # task[t]) =>
      ~proc'[StopTarget(t)].alive /\ ~proc'[StopTarget(t)].kids

C23_GroupGoneAfterStop == [][C23_Step]_vars

\* C24: an execute_tool whose write to the child failed with a broken pipe
\* ends in an exception, and when it has ended the server's is_running is
\* False, its three pipes are closed and its entry is still in servers.
PipeFailed(t) == IsDone(t, "exec") /\ task[t].why = "epipe"

C24_BrokenPipeDemotes ==
  \A t \in Tasks :
    PipeFailed(t) =>
      /\ task[t].result = "TypeError"
      /\ ~sup[task[t].target].is_running
      /\ PipesClosed(task[t].target)
      /\ servers[task[t].name] = task[t].target

\* C25: is_running goes from False to True only when start() of an add_server
\* call comes back from its sleep, a child comes to life only by the Popen
\* of an add_server call, and both happen to an object that never had a
\* child before: so no object is started twice, and none is ever set
\* running again.
Resumed(t, pc) == task[t].pc = pc /\ task'[t].pc # pc
Entered(t, pc) == task[t].pc # pc /\ task'[t].pc = pc

C25_Step ==
  /\ \A i \in SupIds :
       (~sup[i].is_running /\ sup'[i].is_running) =>
         \E t \in Tasks : task[t].op = "add" /\ task[t].sup = i /\ Resumed(t, "add_sleep")
  /\ \A i \in SupIds :
       (~proc[i].alive /\ proc'[i].alive) =>
         /\ ~proc[i].spawned
         /\ \E t \in Tasks : task'[t].op = "add" /\ task'[t].sup = i /\ Entered(t, "add_sleep")
  /\ \A t \in Tasks :
       Entered(t, "add_sleep") =>
         ~proc[task'[t].sup].spawned /\ proc'[task'[t].sup].alive

C25_NoRestart == [][C25_Step]_vars

\* a server lost its flag, stayed in servers, and a later call was refused
C25_Witness ==
  \E t \in Tasks :
    /\ IsDone(t, "exec") /\ task[t].why = "not_running"
    /\ servers[task[t].name] = task[t].target
    /\ proc[task[t].target].sent # <<>>
    /\ stats.servers_created = MaxAdds

\* C26: an execute_tool for a tool that tools does not hold for the server
\* is refused with the caller error, and nothing is written to the child.
Registered(n, tool) == \E x \in tools : x.key = ToolKey(n, tool)

C26_Step ==
  \A t \in Tasks :
    (ExecStep(t) /\ ~Registered(task'[t].name, task'[t].tool)) =>
      /\ task'[t].pc = "done"
      /\ task'[t].result = "ValueError"
      /\ UNCHANGED proc

C26_UnknownToolRejected == [][C26_Step]_vars

\* C27: in every state every object in servers has got the answer to its
\* initialize request and has sent the initialized notification.
Initialized(i) ==
  \E k \in 1..Len(Sent(i)) : Sent(i)[k].method = "notifications/initialized"

C27_OnlyAdmittedVisible == \A n \in Present : Initialized(servers[n])

\* C28: once _cleanup_process has run on an object (the handle is dropped),
\* the three pipes of its child are closed and the child's exit status is
\* reaped, whatever happened while they were being closed.
C28_CleanupReleasesAll ==
  \A i \in SupIds :
    (proc[i].spawned /\ ~sup[i].process) => PipesClosed(i) /\ proc[i].reaped

\* C29: a readline call left behind by a request that timed out never takes
\* the line that answers a later request to the same child, a request whose
\* call is still waiting for it.
C29_Step ==
  \A i \in SupIds :
    (/\ proc[i].lines # <<>>
     /\ proc'[i].lines = Tail(proc[i].lines)
     /\ proc'[i].orphans < proc[i].orphans)
    => \A t \in Tasks :
         (Reading(t) /\ task[t].target = i) => Head(proc[i].lines).id # task[t].rid

C29_TimeoutFailsOneCall == [][C29_Step]_vars

\* C30: the readline of a waiting call that gets a line ends the wait with
\* that line when the line is a JSON object without a method field whose id
\* is the id of the request; every other line is dropped and the call keeps
\* reading.
ReadStep(t) == Reading(t) /\ task'[t].nread = task[t].nread + 1

C30_Step ==
  \A t \in Tasks :
    ReadStep(t) =>
      LET l == Head(proc[task[t].target].lines)
      IN IF l.kind = "object" /\ l.method = "" /\ l.id = task[t].rid
         THEN task'[t].pc = "done" /\ task'[t].result # "TypeError"
         ELSE task'[t].pc = "exec_read"

C30_FirstMatchingLine == [][C30_Step]_vars

\* C31: at every moment the readline calls blocked on the stdout of one
\* child number at most one, and those blocked on all the children number at
\* most the entries of servers, also after a request timed out.
BlockedReaders(i) ==
  IF proc[i].stdout = "open" /\ proc[i].lines = <<>> /\ (proc[i].alive \/ proc[i].kids)
  THEN Readers(i) ELSE 0

RECURSIVE AllBlocked(_)
AllBlocked(I) ==
  IF I = {} THEN 0
  ELSE LET i == CHOOSE x \in I : TRUE IN BlockedReaders(i) + AllBlocked(I \ {i})

C31_ReadersBounded ==
  /\ \A i \in SupIds : BlockedReaders(i) <= 1
  /\ AllBlocked(SupIds) <= Cardinality(Present)

\* C32: while a call waits for the response of one child, which does not
\* come, an execute_tool on another server whose child has written the
\* answer has its readline running, so that it gets the answer without
\* waiting for the first call to end.
BlockedOn(t, i) ==
  /\ Waiting(t)
  /\ i = (IF task[t].pc = "add_init_read" THEN task[t].sup ELSE task[t].target)
  /\ proc[i].alive /\ proc[i].lines = <<>>

AnswerWaits(u) ==
  /\ Reading(u) /\ CanRead(task[u].target)
  /\ sup[task[u].target].is_running
  /\ proc[task[u].target].lines # <<>>
  /\ ReadLine(Head(proc[task[u].target].lines), task[u].rid) = "return"

C32_DistinctServersParallel ==
  \A t, u \in Tasks :
    (\E i \in SupIds : i # task[u].target /\ BlockedOn(t, i) /\ AnswerWaits(u))
      => HasWorker(u)

\* C33: when the handler of /mcp/health has returned, every server its first
\* health_check reported as not running is out of servers with its tools and
\* is named in cleaned_up, and every server in the report returned is
\* running.
C33_HealthEndpointCleansUp ==
  \A t \in Tasks :
    IsDone(t, "mcp_health") =>
      /\ \A i \in task[t].todo :
           /\ \A n \in Names : servers[n] # i
           /\ get_tools_by_server(tools, sup[i].name) = {}
           /\ sup[i].name \in task[t].cleaned_up
      /\ \A e \in task[t].report : e.running

\* C34: what one add_server call writes is ordered: initialize is the first
\* thing written to its child; notifications/initialized is written to that
\* child when the call resumes with an initialize response that has no
\* error; tools/list is written only once the call's child has been sent
\* notifications/initialized; and the step on which the call learns that the
\* response is missing or has an error writes nothing, as no later one does.
Wrote(i, k) == k > Len(proc[i].sent) /\ k <= Len(proc'[i].sent)
HasNotification(q) == \E l \in 1..Len(q) : q[l].method = "notifications/initialized"

C34_Step ==
  \A t \in Tasks :
    (task'[t] # task[t] /\ task'[t].op = "add") =>
      LET own == task'[t].sup IN
      /\ \A i \in SupIds : \A k \in 1..Len(proc'[i].sent) :
           Wrote(i, k) =>
             LET m == proc'[i].sent[k].method IN
             /\ m \in {"initialize", "notifications/initialized", "tools/list"}
             /\ m = "initialize" => i = own /\ k = 1 /\ task[t].pc = "add_sleep"
             /\ m = "notifications/initialized" =>
                  /\ i = own /\ task[t].pc = "add_init_read"
                  /\ proc[i].sent[1].method = "initialize"
                  /\ task'[t].why \notin {"init_none", "init_error"}
             /\ m = "tools/list" =>
                  /\ HasNotification(proc'[own].sent)
                  /\ i = own => \E l \in 1..(k - 1) :
                                  proc'[i].sent[l].method = "notifications/initialized"
      /\ task'[t].why \in {"init_none", "init_error"} =>
           /\ \A i \in SupIds : proc'[i].sent = proc[i].sent
           /\ ~HasNotification(proc'[own].sent)

C34_HandshakeOrder == [][C34_Step]_vars

\* one call went through the three messages, another stopped at an error
C34_Witness ==
  /\ \E t \in Tasks :
       /\ IsDone(t, "add") /\ task[t].why = "init_error"
       /\ Len(proc[task[t].sup].sent) = 1
  /\ \E i \in SupIds :
       /\ Len(proc[i].sent) >= 3
       /\ proc[i].sent[1].method = "initialize"
       /\ proc[i].sent[2].method = "notifications/initialized"
       /\ proc[i].sent[3].method = "tools/list"

\* C35: every line the readline of a waiting call takes, blank, unparsable
\* or not matching, is one of at most max_lines = 50; the call that has taken
\* 50 without a match ends without a response; so does, taking no line, the
\* call whose readline met the end of the stream; and none of these steps
\* changes is_running.
TookLine(t) ==
  /\ Reading(t)
  /\ proc[task[t].target].lines # <<>>
  /\ proc'[task[t].target].lines = Tail(proc[task[t].target].lines)
  /\ proc'[task[t].target].orphans = proc[task[t].target].orphans

MetEnd(t) == Reading(t) /\ task'[t].pc = "done" /\ task'[t].why = "end_of_stream"

C35_Step ==
  \A t \in Tasks :
    /\ TookLine(t) =>
         /\ task'[t].nread = task[t].nread + 1
         /\ task'[t].nread <= max_lines
         /\ (/\ task'[t].nread = max_lines
             /\ ReadLine(Head(proc[task[t].target].lines), task[t].rid) # "return")
            => task'[t].pc = "done" /\ task'[t].result = Outcome("none", FALSE)
         /\ sup' = sup
    /\ MetEnd(t) =>
         /\ task'[t].nread = task[t].nread
         /\ task'[t].result = Outcome("none", FALSE)
         /\ proc' = proc
         /\ sup' = sup

C35_LineBudget == [][C35_Step]_vars

\* a call gave up on its fiftieth line, and the server is still running
C35_Witness ==
  \E t \in Tasks :
    /\ IsDone(t, "exec") /\ task[t].why = "gave_up"
    /\ task[t].nread = max_lines
    /\ sup[task[t].target].is_running

\* C36: servers_failed goes up by one on the step on which an add_server
\* call fails (the spawn, the startup probe or the handshake), that call then
\* returns False, and no other step of any operation changes it; so every
\* call that returned False has added exactly one and every call that
\* returned True none.
FailsNow(t) ==
  /\ task'[t] # task[t] /\ task'[t].op = "add"
  /\ task[t].pc # "add_fail_stop"
  /\ \/ task'[t].pc = "add_fail_stop"
     \/ task'[t].pc = "done" /\ task'[t].result = "false"

C36_Step ==
  /\ stats'.servers_failed =
       stats.servers_failed + Cardinality({t \in Tasks : FailsNow(t)})
  /\ \A t \in Tasks :
       (task[t].pc = "add_fail_stop" /\ task'[t] # task[t]) =>
         task'[t].pc = "done" /\ task'[t].result = "false"

C36_FailedCountsFailures == [][C36_Step]_vars

\* of two calls one returned True and one, whose handshake failed, False
C36_Witness ==
  /\ stats.servers_created = 2 /\ stats.servers_failed = 1
  /\ \E t \in Tasks :
       /\ IsDone(t, "add") /\ task[t].result = "false"
       /\ task[t].why \in {"init_none", "init_error"} /\ task[t].snap.alive
  /\ Present # {}

\* C37: when a shutdown that began while an add_server call was in flight
\* and that add_server call have both returned, servers and tools are empty
\* and the child the add_server call spawned is not alive.
C37_AddDoesNotSurviveShutdown ==
  (IsDone(1, "add") /\ IsDone(2, "shutdown")) =>
    /\ Present = {}
    /\ tools = {}
    /\ task[1].sup # 0 => ~proc[task[1].sup].alive

\* C38: a health_check step leaves servers, tools, the counters of stats and
\* request_id as they are; of every object it leaves the handle, and of
\* every child the three pipes, what was written and what waits to be read;
\* it starts and ends no child; and it changes is_running only from True to
\* False.
Pipes(p) == <<p.stdin, p.stdout, p.stderr, p.dirty, p.sent, p.lines, p.alive, p.spawned>>

C38_Step ==
  \A t \in Tasks :
    (task'[t] # task[t] /\ task'[t].op = "health") =>
      /\ UNCHANGED <<servers, tools, stats, request_id, nsup>>
      /\ \A i \in SupIds :
           /\ sup'[i].process = sup[i].process
           /\ sup'[i].name = sup[i].name
           /\ sup'[i].is_running => sup[i].is_running
           /\ Pipes(proc'[i]) = Pipes(proc[i])

C38_HealthCheckFrame == [][C38_Step]_vars

\* the probe cleared a flag while tools and counters were there to be kept
C38_Witness ==
  /\ \E t \in Tasks : IsDone(t, "health") /\ task[t].todo # {}
  /\ tools # {}
  /\ stats.servers_removed > 0

\* C39: in every state an object whose is_running is True has its handle,
\* and an object whose handle _cleanup_process has dropped has is_running
\* False.
C39_RunningHasHandle ==
  \A i \in SupIds :
    /\ sup[i].is_running => sup[i].process
    /\ (proc[i].spawned /\ ~sup[i].process) => ~sup[i].is_running

\* cleanup has run on a server that had been admitted, another is running
C39_Witness ==
  \E i, j \in SupIds :
    /\ proc[i].spawned /\ ~sup[i].process /\ Len(proc[i].sent) >= 3
    /\ PipesClosed(i)
    /\ sup[j].is_running /\ sup[j].process /\ proc[j].alive

\* C40: the keys "<server>.<tool>" of two different pairs of server and tool
\* differ, also for names with a "." in them, so that no step takes the tool
\* of a server out of tools while the entry of that server stays as it is:
\* registering the tools of one server overwrites none of another.
C40_Step ==
  \A x \in tools :
    x \notin tools' =>
      \/ servers'[x.server_name] = 0
      \/ servers'[x.server_name] # servers[x.server_name]

C40_KeysNeverCollide == [][C40_Step]_vars
====
